---- MODULE Spec2Model ----
(***************************************************************************)
(* Model of eden_subnet/base/base.py: the BaseModule helpers get_netuid    *)
(* and get_ip_port, and the BaseValidator operations get_miner_generation, *)
(* get_queryable_miners and score_miner.                                   *)
(*                                                                         *)
(* Python strings are sequences of one-character strings, Python dicts are *)
(* functions whose DOMAIN is the key set, and a dict whose iteration order *)
(* matters (get_netuid) is a sequence of <<key, value>> pairs.             *)
(***************************************************************************)
EXTENDS Integers, Sequences, FiniteSets, TLC

VARIABLES
    \* the chain, as c_client answers
    module_addresses,   \* dict[int, str]: query_map_address; also get_ip_port's argument
    module_keys,        \* dict[int, Ss58Address]: query_map_key
    chain_fault,        \* the query that raises RuntimeError, or "none"
    subnets,            \* query_map_subnet_names, as <<netuid, name>> pairs in dict order
    chain_weights,      \* netuid -> the dict query_map_weights(netuid) answers
    \* get_ip_port
    ip_called,          \* get_ip_port has returned
    ip_port,            \* the dict it returned
    \* get_queryable_miners
    qm_status,          \* "idle", "returned" (a dict), "none" (None) or "raised"
    qm_exc,             \* the exception that escaped, "" for none
    module_dict,        \* the dict returned
    log,                \* what logger.error was given
    \* get_miner_generation
    miner_list,         \* the argument: a sequence of miner dicts
    gen_pc,             \* "idle", "loop", "await" (POST sent), "done" or "raised"
    gen_i,              \* position of miner_dict in miner_list
    results_dict,
    result,             \* the local variable result, Unbound before its first assignment
    posts,              \* the positions of miner_list a POST was sent for, in order
    outcomes,           \* the outcomes of the POSTs, in order
    gen_exc,            \* the exception that escaped, "" for none
    \* get_netuid
    subnet_name,        \* the argument
    netuid_status,      \* "idle", "returned" or "ValueError"
    netuid_ret,
    \* score_miner
    score_input,        \* the argument module_info of the last call
    score_status,       \* "idle", "returned" or "RuntimeError"
    modules_info,       \* the dict modules_info of the last call that built one
    score_calls         \* the calls made so far: <<module_info, outcome>> of each

chainVars == <<module_addresses, module_keys, chain_fault, subnets, chain_weights>>
ipVars == <<ip_called, ip_port>>
qmVars == <<qm_status, qm_exc, module_dict>>
genVars == <<miner_list, gen_pc, gen_i, results_dict, result, posts, outcomes, gen_exc>>
netuidVars == <<subnet_name, netuid_status, netuid_ret>>
scoreVars == <<score_input, score_status, modules_info, score_calls>>

vars == <<chainVars, ipVars, qmVars, log, genVars, netuidVars, scoreVars>>

(***************************************************************************)
(* Bounds of the model.                                                    *)
(***************************************************************************)
\* longest address string get_ip_port is run on in SpecIp
MaxAddrLen == 11
\* module ids on the chain are 0..MaxUid in SpecQm
MaxUid == 2
\* longest miner_list get_miner_generation is run on in SpecGen
MaxMiners == 3
\* the subnet-name map has at most MaxSubnets entries, with netuids 0..MaxSubnets
MaxSubnets == 3
\* weights on the chain are 1..MaxWeight
MaxWeight == 2
\* score_miner is called up to MaxCalls times in a run of SpecScore
MaxCalls == 2

(***************************************************************************)
(* Strings.                                                                *)
(***************************************************************************)
Digits == {"0", "1", "2", "3", "4", "5", "6", "7", "8", "9"}

\* the characters address strings are built from in SpecIp
AddrAlphabet == {"1", ".", ":"}

\* {}
EmptyDict == <<>>

\* the value of a local variable that was never assigned
Unbound == <<"unbound">>

\* every dict with keys among K and values among V
Dicts(K, V) == UNION {[S -> V] : S \in SUBSET K}

\* the state of each operation before it is called
IpIdle == ip_called = FALSE /\ ip_port = EmptyDict
QmIdle == qm_status = "idle" /\ qm_exc = "" /\ module_dict = EmptyDict
GenIdle ==
    /\ miner_list = <<>> /\ gen_pc = "idle" /\ gen_i = 0 /\ results_dict = EmptyDict
    /\ result = Unbound /\ posts = <<>> /\ outcomes = <<>> /\ gen_exc = ""
NetuidIdle == subnet_name = "" /\ netuid_status = "idle" /\ netuid_ret = 0
ScoreIdle ==
    /\ score_input = EmptyDict /\ score_status = "idle" /\ modules_info = EmptyDict
    /\ score_calls = <<>>

SetMin(S) == CHOOSE x \in S : \A y \in S : x <= y
SetMax(S) == CHOOSE x \in S : \A y \in S : y <= x

\* the elements of a list
Elements(list) == {list[j] : j \in 1..Len(list)}

RECURSIVE Ascending(_)
\* the keys of a dict of module ids in the order .items() yields them: the
\* chain client fills its maps in ascending id order
Ascending(S) == IF S = {} THEN <<>> ELSE <<SetMin(S)>> \o Ascending(S \ {SetMin(S)})

\* s[a..b] as a string
Slice(s, a, b) == SubSeq(s, a, b)

(***************************************************************************)
(* IP_REGEX = \d{1,3}\.\d{1,3}\.\d{1,3}\.\d{1,3}:\d+   (line 17)           *)
(* matched the way the re module matches it: greedy quantifiers with       *)
(* backtracking, tried at each start position from the left.               *)
(* The matchers return the index of the last matched character, 0 for no   *)
(* match.                                                                  *)
(***************************************************************************)
\* \d{1,3}: at most this many digits in one octet
MaxOctetDigits == 3
\* the pattern has this many \d{1,3} groups
NumOctets == 4

AllDigits(s, a, b) == \A j \in a..b : s[j] \in Digits

RECURSIVE DigitRunEnd(_, _)
\* index of the last character of the maximal run of digits starting at pos
\* (pos - 1 when s[pos] is no digit)
DigitRunEnd(s, pos) ==
    IF pos <= Len(s) /\ s[pos] \in Digits THEN DigitRunEnd(s, pos + 1) ELSE pos - 1

\* :\d+  the last item of the pattern: greedy, nothing follows, so no backtracking
MatchPort(s, pos) ==
    IF pos <= Len(s) /\ s[pos] \in Digits THEN DigitRunEnd(s, pos) ELSE 0

RECURSIVE TryOctet(_, _, _, _)
\* what follows octet number n, from position pos
AfterOctet(s, pos, n) ==
    IF pos > Len(s) THEN 0
    ELSE IF n < NumOctets
         THEN IF s[pos] = "." THEN TryOctet(s, pos + 1, n + 1, MaxOctetDigits) ELSE 0
         ELSE IF s[pos] = ":" THEN MatchPort(s, pos + 1) ELSE 0

\* octet number n at pos taking k digits; on failure of the rest, one digit fewer
TryOctet(s, pos, n, k) ==
    IF k = 0 THEN 0
    ELSE IF pos + k - 1 <= Len(s) /\ AllDigits(s, pos, pos + k - 1)
         THEN LET r == AfterOctet(s, pos + k, n)
              IN  IF r # 0 THEN r ELSE TryOctet(s, pos, n, k - 1)
         ELSE TryOctet(s, pos, n, k - 1)

\* the pattern anchored at start
MatchAt(s, start) == TryOctet(s, start, 1, MaxOctetDigits)

NoMatch == [found |-> FALSE, group0 |-> <<>>]

RECURSIVE SearchFrom(_, _)
SearchFrom(s, start) ==
    IF start > Len(s) THEN NoMatch
    ELSE IF MatchAt(s, start) # 0
         THEN [found |-> TRUE, group0 |-> Slice(s, start, MatchAt(s, start))]
         ELSE SearchFrom(s, start + 1)

\* re.search(pattern=IP_REGEX, string=string): a Match, or None (NoMatch)
extract_address_first_only(string) ==
    IF MatchAt(string, 1) # 0
    THEN [found |-> TRUE, group0 |-> Slice(string, 1, MatchAt(string, 1))]
    ELSE NoMatch

extract_address(string) == SearchFrom(string, 1)

RECURSIVE SplitFrom(_, _, _, _)
\* str.split(sep) for a one-character sep: the pieces between the separators
SplitFrom(s, sep, pos, piece) ==
    IF pos > Len(s) THEN <<piece>>
    ELSE IF s[pos] = sep THEN <<piece>> \o SplitFrom(s, sep, pos + 1, <<>>)
         ELSE SplitFrom(s, sep, pos + 1, Append(piece, s[pos]))

Split(s, sep) == SplitFrom(s, sep, 1, <<>>)

\* BaseModule.get_ip_port
get_ip_port(modules_addresses) ==
    LET filtered_addr == [id \in DOMAIN modules_addresses |->
                              extract_address(modules_addresses[id])]
    IN  [id \in {i \in DOMAIN filtered_addr : filtered_addr[i].found} |->
              Split(filtered_addr[id].group0, ":")]

(***************************************************************************)
(* SpecIp: get_ip_port run on an address map of two modules: module 1 with *)
(* every address of up to MaxAddrLen characters of AddrAlphabet, module 2  *)
(* with an address that has no match.                                      *)
(***************************************************************************)
SampleMatching == <<"1", "0", ".", "0", ".", "0", ".", "2", ":", "8", "0">>
SampleNoMatch == <<"n", "o", "n", "e">>

InitIp ==
    /\ module_addresses = (1 :> <<>>) @@ (2 :> SampleNoMatch)
    /\ module_keys = EmptyDict /\ chain_fault = "none" /\ subnets = <<>>
    /\ chain_weights = EmptyDict /\ log = <<>>
    /\ IpIdle /\ QmIdle /\ GenIdle /\ NetuidIdle /\ ScoreIdle

\* the address registered for module 1 is one character longer
GrowAddress(c) ==
    /\ ~ip_called
    /\ Len(module_addresses[1]) < MaxAddrLen
    /\ module_addresses' = [module_addresses EXCEPT ![1] = Append(@, c)]
    /\ UNCHANGED <<module_keys, chain_fault, subnets, chain_weights>>
    /\ UNCHANGED <<ipVars, qmVars, log, genVars, netuidVars, scoreVars>>

GetIpPort ==
    /\ ~ip_called
    /\ ip_port' = get_ip_port(module_addresses)
    /\ ip_called' = TRUE
    /\ UNCHANGED <<chainVars, qmVars, log, genVars, netuidVars, scoreVars>>

NextIp ==
    \/ \E c \in AddrAlphabet : GrowAddress(c)
    \/ GetIpPort

SpecIp == InitIp /\ [][NextIp]_vars

(***************************************************************************)
(* C3.  What a d.d.d.d:port substring is, said without the matcher: the    *)
(* three dots and the colon sit at p1 < p2 < p3 < p4, with one to three    *)
(* digits before each and at least one digit after the colon.              *)
(***************************************************************************)
IsDigitRun(s, a, b) == a <= b /\ b <= Len(s) /\ AllDigits(s, a, b)

SepAfterOctet(s, a, sep) ==
    {p \in (a + 1)..(a + 3) : p <= Len(s) /\ s[p] = sep /\ IsDigitRun(s, a, p - 1)}

\* the places of the colon of a d.d.d.d: that starts at a
ColonsFrom(s, a) ==
    UNION {UNION {UNION {SepAfterOctet(s, p3 + 1, ":") :
                            p3 \in SepAfterOctet(s, p2 + 1, ".")} :
                     p2 \in SepAfterOctet(s, p1 + 1, ".")} :
              p1 \in SepAfterOctet(s, a, ".")}

\* the b for which s[a..b] has the form d.d.d.d:port
FormEnds(s, a) ==
    LET colons == ColonsFrom(s, a)
    IN  {b \in a..Len(s) : \E p4 \in colons : IsDigitRun(s, p4 + 1, b)}

FormStarts(s) == {a \in 1..Len(s) : FormEnds(s, a) # {}}

HasIpPort(s) == FormStarts(s) # {}

\* the first match, <<start, end>>: the leftmost start, and from there as far as
\* the form reaches
FirstMatch(s) ==
    LET a == SetMin(FormStarts(s))
    IN  <<a, SetMax(FormEnds(s, a))>>

\* pair is [ip, port] of the first match of s
IsIpPortOf(pair, s) ==
    LET m == FirstMatch(s)
    IN  /\ Len(pair) = 2
        /\ ":" \notin {pair[1][j] : j \in 1..Len(pair[1])}
        /\ pair[1] \o <<":">> \o pair[2] = Slice(s, m[1], m[2])

\* C3: when get_ip_port returns, every module id whose address contains a
\* d.d.d.d:port substring is mapped to the two-element list [ip, port] of the
\* first such match, every module id whose address contains none is left out,
\* no key is returned that the input does not have, and the input is unchanged.
C3_GetIpPortExtracts ==
    [][(~ip_called /\ ip_called') =>
          /\ module_addresses' = module_addresses
          /\ DOMAIN ip_port' \subseteq DOMAIN module_addresses
          /\ \A id \in DOMAIN module_addresses :
                IF HasIpPort(module_addresses[id])
                THEN /\ id \in DOMAIN ip_port'
                     /\ IsIpPortOf(ip_port'[id], module_addresses[id])
                ELSE id \notin DOMAIN ip_port']_vars

\* get_ip_port has returned an entry for module 1 whose match starts after the
\* first character of the address and ends before its last, and has left out
\* module 2, whose address has no match
C3_Witness ==
    /\ ip_called
    /\ 1 \in DOMAIN ip_port
    /\ FirstMatch(module_addresses[1])[1] > 1
    /\ FirstMatch(module_addresses[1])[2] < Len(module_addresses[1])
    /\ 2 \in DOMAIN module_addresses
    /\ 2 \notin DOMAIN ip_port

(***************************************************************************)
(* get_queryable_miners (lines 180-217).                                   *)
(***************************************************************************)
\* self.settings.ss58_address
OwnSs58 == "5Validator"

Ss58Keys == {OwnSs58, "5MinerA", "5MinerB"}

Uids == 0..MaxUid

AddrSamples == {SampleMatching, SampleNoMatch}

\* lines 201-204: the master and the validator itself are skipped
SkipModule_master_only(module_id, ss58_address) == module_id = 0

SkipModule(module_id, ss58_address) ==
    module_id = 0 \/ ss58_address = OwnSs58

\* lines 205-207: netuid and ss58_address, when get_ip_port has an entry
InfoAddress(module_id, modules_filtered_address) ==
    IF module_id \in DOMAIN modules_filtered_address
       /\ modules_filtered_address[module_id] # <<>>
    THEN ("netuid" :> module_id) @@
         ("ss58_address" :> modules_filtered_address[module_id])
    ELSE EmptyDict

\* lines 209-213: host and port. module_host_address is the list get_ip_port
\* made, so ":" in it asks whether one of its elements is the string ":";
\* module_host_address[module_id] indexes that list (from 0) by the module id.
InfoHostPort(module_id, modules_filtered_address) ==
    IF module_id \in DOMAIN modules_filtered_address
       /\ modules_filtered_address[module_id] # <<>>
    THEN LET module_host_address == modules_filtered_address[module_id]
         IN  IF <<":">> \in Elements(module_host_address)
             THEN IF module_id >= Len(module_host_address)
                  THEN [exc |-> "IndexError", info |-> EmptyDict]
                  ELSE LET parts == Split(module_host_address[module_id + 1], ":")
                       IN  IF Len(parts) # 2
                           THEN [exc |-> "ValueError", info |-> EmptyDict]
                           ELSE [exc |-> "",
                                 info |-> ("host" :> parts[1]) @@ ("port" :> parts[2])]
             ELSE [exc |-> "", info |-> EmptyDict]
    ELSE [exc |-> "", info |-> EmptyDict]

\* lines 200, 205-213: the module_info of one module that is not skipped
ModuleInfo(module_id, addresses, modules_filtered_address) ==
    IF module_id \notin DOMAIN addresses
    THEN [exc |-> "KeyError", info |-> EmptyDict]                 \* line 208
    ELSE LET hp == InfoHostPort(module_id, modules_filtered_address)
         IN  [exc |-> hp.exc,
              info |-> hp.info @@ InfoAddress(module_id, modules_filtered_address)]

RECURSIVE QmLoop(_, _, _, _, _)
\* lines 199-215: the loop over modules_keys.items(), from the k-th item on
QmLoop(ids, k, keys, addresses, acc) ==
    IF k > Len(ids) THEN [status |-> "returned", exc |-> "", value |-> acc, logged |-> <<>>]
    ELSE LET module_id == ids[k]
         IN  IF SkipModule(module_id, keys[module_id])
             THEN QmLoop(ids, k + 1, keys, addresses, acc)
             ELSE LET r == ModuleInfo(module_id, addresses, get_ip_port(addresses))
                  IN  IF r.exc # ""
                      THEN [status |-> "raised", exc |-> r.exc,
                            value |-> EmptyDict, logged |-> <<>>]
                      ELSE QmLoop(ids, k + 1, keys, addresses,
                                  (module_id :> r.info) @@ acc)

\* the whole of get_queryable_miners, given what the two queries do
get_queryable_miners(addresses, keys, fault) ==
    IF fault # "none"
    THEN \* lines 216-217: the RuntimeError is logged, the function falls off its end
         [status |-> "none", exc |-> "", value |-> EmptyDict, logged |-> <<"RuntimeError">>]
    ELSE IF DOMAIN keys = {}
         THEN \* line 193 is skipped for an empty map: modules_keys is never bound,
              \* and line 199 reads it
              [status |-> "raised", exc |-> "UnboundLocalError",
               value |-> EmptyDict, logged |-> <<>>]
         ELSE QmLoop(Ascending(DOMAIN keys), 1, keys, addresses, EmptyDict)

InitQm ==
    /\ module_addresses \in Dicts(Uids, AddrSamples)
    /\ module_keys \in Dicts(Uids, Ss58Keys)
    /\ chain_fault \in {"none", "query_map_address", "query_map_key"}
    /\ subnets = <<>> /\ chain_weights = EmptyDict /\ log = <<>>
    /\ IpIdle /\ QmIdle /\ GenIdle /\ NetuidIdle /\ ScoreIdle

GetQueryableMiners ==
    /\ qm_status = "idle"
    /\ LET r == get_queryable_miners(module_addresses, module_keys, chain_fault)
       IN  /\ qm_status' = r.status
           /\ qm_exc' = r.exc
           /\ module_dict' = r.value
           /\ log' = log \o r.logged
    /\ UNCHANGED <<chainVars, ipVars, genVars, netuidVars, scoreVars>>

NextQm == GetQueryableMiners

SpecQm == InitQm /\ [][NextQm]_vars

\* C1: the mapping get_queryable_miners returns has neither module id 0 nor
\* a module id whose registered key is the validator's own ss58_address as a key.
C1_NoMasterNoSelf ==
    qm_status = "returned" =>
        /\ 0 \notin DOMAIN module_dict
        /\ \A id \in DOMAIN module_dict : module_keys[id] # OwnSs58

\* a mapping with an entry was returned for a chain that registers the master
\* and, under another id, the validator's own key
C1_Witness ==
    /\ qm_status = "returned"
    /\ module_dict # EmptyDict
    /\ 0 \in DOMAIN module_keys
    /\ \E id \in DOMAIN module_keys : id # 0 /\ module_keys[id] = OwnSs58

\* C6: every value of the returned mapping has the four keys netuid,
\* ss58_address, host and port.
C6_AllFourKeys ==
    qm_status = "returned" =>
        \A id \in DOMAIN module_dict :
            {"netuid", "ss58_address", "host", "port"} \subseteq DOMAIN module_dict[id]

\* C9: every entry of the returned mapping has netuid equal to its module id
\* and ss58_address equal to the [host, port] list get_ip_port made for that
\* id, which is what get_miner_generation reads before it POSTs.
C9_EntriesConsumable ==
    qm_status = "returned" =>
        \A id \in DOMAIN module_dict :
            /\ {"netuid", "ss58_address"} \subseteq DOMAIN module_dict[id]
            /\ module_dict[id]["netuid"] = id
            /\ id \in DOMAIN get_ip_port(module_addresses)
            /\ module_dict[id]["ss58_address"] = get_ip_port(module_addresses)[id]
            /\ Len(module_dict[id]["ss58_address"]) = 2

\* C10: no exception escapes get_queryable_miners: it returns a mapping when
\* both queries succeed and logs and returns None when one raises RuntimeError.
C10_NeverRaises ==
    qm_status # "idle" =>
        /\ qm_status # "raised"
        /\ chain_fault = "none" => qm_status = "returned"
        /\ chain_fault # "none" => qm_status = "none" /\ log = <<"RuntimeError">>

(***************************************************************************)
(* get_miner_generation (lines 141-178).  requests.post blocks, so one     *)
(* iteration is two steps: up to the request being sent (GenIssue), and    *)
(* from its outcome to the end of the iteration (GenOutcome).              *)
(***************************************************************************)
\* line 177
Fallback == <<"0.0001">>

\* the uids of the miners in SpecGen
GenUids == {1, 2}

\* an entry as get_queryable_miners makes it for a module with a usable address
MinerEntry(uid) == InfoAddress(uid, uid :> Split(SampleMatching, ":"))

\* the entries get_queryable_miners can return: usable ones, and {} for a module
\* whose address get_ip_port left out
MinerDicts == {EmptyDict} \cup {MinerEntry(uid) : uid \in GenUids}

MinerLists == UNION {[1..n -> MinerDicts] : n \in 0..MaxMiners}

\* response.content of the miner at position i of miner_list
Body(i) == <<"content", i>>

\* what requests.post does for the miner at position i: a response with status
\* 200, a response with another status, an exception that is a ValueError
\* (requests' InvalidURL, MissingSchema, ...), or any other exception
\* (requests' ConnectionError, Timeout, ...)
Outcomes(i) ==
    {[kind |-> "status200", content |-> Body(i)],
     [kind |-> "statusOther", content |-> Body(i)],
     [kind |-> "ValueError", content |-> <<>>],
     [kind |-> "OtherError", content |-> <<>>]}

\* lines 159-163: the exception raised before the request, "" for none
PrepareExc(miner_dict, keys) ==
    IF "netuid" \notin DOMAIN miner_dict THEN "KeyError"                \* line 159
    ELSE IF miner_dict["netuid"] \notin DOMAIN keys THEN "KeyError"     \* line 161
    ELSE IF "ss58_address" \notin DOMAIN miner_dict THEN "KeyError"     \* line 163
    ELSE IF Len(miner_dict["ss58_address"]) # 2 THEN "ValueError"       \* line 163
    ELSE ""

\* line 158: the for loop takes the next element after each iteration
NextIndex_retry(i, outcome) == IF outcome.kind = "ValueError" THEN i ELSE i + 1

NextIndex(i, outcome) == i + 1

\* lines 171-177: from the outcome of the POST to the end of the iteration
HandleOutcome(uid, outcome, res, results) ==
    CASE outcome.kind = "status200" ->
            [exc |-> "", result |-> outcome.content,
             results_dict |-> (uid :> outcome.content) @@ results, logged |-> <<>>]
      [] outcome.kind = "statusOther" ->
            \* line 173 is skipped; line 174 reads result as an earlier iteration
            \* left it, or unbound
            IF res = Unbound
            THEN [exc |-> "UnboundLocalError", result |-> res,
                  results_dict |-> results, logged |-> <<>>]
            ELSE [exc |-> "", result |-> res,
                  results_dict |-> (uid :> res) @@ results, logged |-> <<>>]
      [] outcome.kind = "ValueError" ->
            [exc |-> "", result |-> res,
             results_dict |-> (uid :> Fallback) @@ results, logged |-> <<"ValueError">>]
      [] outcome.kind = "OtherError" ->
            [exc |-> "OtherError", result |-> res,
             results_dict |-> results, logged |-> <<>>]

InitGen ==
    /\ miner_list \in MinerLists
    /\ module_keys \in Dicts(GenUids, {"5MinerA"})
    /\ gen_pc = "loop" /\ gen_i = 1 /\ results_dict = EmptyDict /\ result = Unbound
    /\ posts = <<>> /\ outcomes = <<>> /\ gen_exc = ""
    /\ module_addresses = EmptyDict /\ chain_fault = "none"
    /\ subnets = <<>> /\ chain_weights = EmptyDict /\ log = <<>>
    /\ IpIdle /\ QmIdle /\ NetuidIdle /\ ScoreIdle

\* lines 158-171: the next miner, up to its request being sent
GenIssue ==
    /\ gen_pc = "loop"
    /\ gen_i <= Len(miner_list)
    /\ LET exc == PrepareExc(miner_list[gen_i], module_keys)
       IN  IF exc # ""
           THEN /\ gen_pc' = "raised"
                /\ gen_exc' = exc
                /\ UNCHANGED posts
           ELSE /\ gen_pc' = "await"
                /\ posts' = Append(posts, gen_i)
                /\ UNCHANGED gen_exc
    /\ UNCHANGED <<miner_list, gen_i, results_dict, result, outcomes>>
    /\ UNCHANGED <<chainVars, ipVars, qmVars, log, netuidVars, scoreVars>>

\* lines 171-177: the request ends with outcome o
GenOutcome(o) ==
    /\ gen_pc = "await"
    /\ outcomes' = Append(outcomes, o)
    /\ LET r == HandleOutcome(miner_list[gen_i]["netuid"], o, result, results_dict)
       IN  /\ result' = r.result
           /\ results_dict' = r.results_dict
           /\ log' = log \o r.logged
           /\ gen_exc' = r.exc
           /\ IF r.exc # ""
              THEN gen_pc' = "raised" /\ UNCHANGED gen_i
              ELSE gen_pc' = "loop" /\ gen_i' = NextIndex(gen_i, o)
    /\ UNCHANGED <<miner_list, posts>>
    /\ UNCHANGED <<chainVars, ipVars, qmVars, netuidVars, scoreVars>>

\* line 178: the list is exhausted
GenReturn ==
    /\ gen_pc = "loop"
    /\ gen_i > Len(miner_list)
    /\ gen_pc' = "done"
    /\ UNCHANGED <<miner_list, gen_i, results_dict, result, posts, outcomes, gen_exc>>
    /\ UNCHANGED <<chainVars, ipVars, qmVars, log, netuidVars, scoreVars>>

NextGen ==
    \/ GenIssue
    \/ \E o \in Outcomes(gen_i) : GenOutcome(o)
    \/ GenReturn

SpecGen == InitGen /\ [][NextGen]_vars

GenEnded == gen_pc \in {"done", "raised"}

\* C2: the miners are POSTed to in list order, each at most once (no second
\* attempt after a failure), and a POST is sent only when the outcome of every
\* earlier POST is known.
C2_SingleSequentialPass ==
    /\ Len(posts) <= Len(miner_list)
    /\ \A k \in 1..Len(posts) : posts[k] = k
    /\ Len(outcomes) = IF gen_pc = "await" THEN Len(posts) - 1 ELSE Len(posts)

\* the run returned after three POSTs, the second of which failed with
\* ValueError and the third with a status other than 200
C2_Witness ==
    /\ gen_pc = "done"
    /\ Len(posts) = 3
    /\ outcomes[2].kind = "ValueError"
    /\ outcomes[3].kind = "statusOther"

\* the step that handles a ValueError of the request
ValueErrorStep ==
    /\ Len(outcomes') = Len(outcomes) + 1
    /\ outcomes'[Len(outcomes')].kind = "ValueError"

\* C7: when the request to a miner raises ValueError, the miner's uid is
\* recorded with the fallback "0.0001", the entries recorded for the other
\* miners are unchanged, and every remaining miner of the list is queried:
\* the run does not end before a POST was sent for each of them.
C7_ValueErrorThenAllQueried ==
    [][/\ ValueErrorStep =>
            LET uid == miner_list[gen_i]["netuid"]
            IN  /\ DOMAIN results_dict' = DOMAIN results_dict \cup {uid}
                /\ results_dict'[uid] = Fallback
                /\ \A u \in DOMAIN results_dict \ {uid} :
                        results_dict'[u] = results_dict[u]
       /\ (GenEnded' /\ \E k \in 1..Len(outcomes') : outcomes'[k].kind = "ValueError")
            => Len(posts') = Len(miner_list)]_vars

\* C8: the value recorded under a uid is the fallback "0.0001" or the body of a
\* status-200 response of a miner with that uid.
C8_OwnBodyOrFallback ==
    \A u \in DOMAIN results_dict :
        \/ results_dict[u] = Fallback
        \/ \E k \in 1..Len(outcomes) :
              /\ miner_list[k]["netuid"] = u
              /\ outcomes[k].kind = "status200"
              /\ outcomes[k].content = results_dict[u]

(***************************************************************************)
(* get_netuid (lines 75-95).                                               *)
(***************************************************************************)
SubnetNames == {"mosaic", "other"}

Netuids == 0..MaxSubnets

\* the subnet-name maps: a dict has each key once
SubnetMaps ==
    {m \in UNION {[1..n -> Netuids \X SubnetNames] : n \in 0..MaxSubnets} :
        \A j, k \in 1..Len(m) : j # k => m[j][1] # m[k][1]}

\* line 92
NameMatches_default(name, wanted) == name = "mosaic"

NameMatches(name, wanted) == name = wanted

RECURSIVE GetNetuidFrom(_, _, _)
\* lines 91-95: the loop over subnets.items(), from the k-th item on
GetNetuidFrom(items, k, wanted) ==
    IF k > Len(items) THEN [status |-> "ValueError", netuid |-> 0]
    ELSE IF NameMatches(items[k][2], wanted)
         THEN [status |-> "returned", netuid |-> items[k][1]]
         ELSE GetNetuidFrom(items, k + 1, wanted)

get_netuid(items, wanted) == GetNetuidFrom(items, 1, wanted)

InitNetuid ==
    /\ subnets \in SubnetMaps
    /\ module_addresses = EmptyDict /\ module_keys = EmptyDict /\ chain_fault = "none"
    /\ chain_weights = EmptyDict /\ log = <<>>
    /\ IpIdle /\ QmIdle /\ GenIdle /\ NetuidIdle /\ ScoreIdle

GetNetuid(wanted) ==
    /\ netuid_status = "idle"
    /\ subnet_name' = wanted
    /\ LET r == get_netuid(subnets, wanted)
       IN  netuid_status' = r.status /\ netuid_ret' = r.netuid
    /\ UNCHANGED <<chainVars, ipVars, qmVars, log, genVars, scoreVars>>

NextNetuid == \E wanted \in SubnetNames \cup {"eden"} : GetNetuid(wanted)

SpecNetuid == InitNetuid /\ [][NextNetuid]_vars

\* C4: get_netuid returns a netuid the subnet-name map gives the name
\* subnet_name, and raises ValueError exactly when the map gives no netuid
\* that name.
C4_NetuidOfName ==
    netuid_status # "idle" =>
        /\ netuid_status = "returned" =>
              \E k \in 1..Len(subnets) : subnets[k] = <<netuid_ret, subnet_name>>
        /\ netuid_status = "ValueError" <=>
              ~ \E k \in 1..Len(subnets) : subnets[k][2] = subnet_name

\* get_netuid returned the netuid of a name that is not the first of the map and
\* not the default name
C4_Witness ==
    /\ netuid_status = "returned"
    /\ subnet_name = "other"
    /\ Len(subnets) >= 2
    /\ subnets[1][2] # subnet_name

(***************************************************************************)
(* score_miner (lines 219-249).  module_info is as the docstring has it:   *)
(* "netuid" an int, "ss58_address" a str.                                  *)
(***************************************************************************)
ScoreNetuids == {1, 2}

ScoreKeys == {"5MinerA", "5MinerB"}

Weights == 1..MaxWeight

\* line 243: modules_info starts empty in every call; previous is the dict the
\* call before built
NewModulesInfo_kept(previous) == previous

NewModulesInfo(previous) == EmptyDict

\* lines 238-249
score_miner(module_info, weights_of, previous) ==
    LET netuid == module_info["netuid"]
        weights_dict == weights_of[netuid]
        ss58_key == module_info["ss58_address"]
    IN  IF ss58_key \notin DOMAIN weights_dict
        THEN [status |-> "RuntimeError", value |-> previous]
        ELSE LET fresh == NewModulesInfo(previous)
                 weights == weights_dict[ss58_key]
             IN  [status |-> "returned",
                  value |->
                     IF netuid \in DOMAIN fresh
                     THEN [fresh EXCEPT ![netuid] =
                              [weight |-> fresh[netuid].weight + weights]]
                     ELSE (netuid :> [weight |-> weights]) @@ fresh]

InitScore ==
    /\ chain_weights \in [ScoreNetuids -> Dicts(ScoreKeys, Weights)]
    /\ module_addresses = EmptyDict /\ module_keys = EmptyDict /\ chain_fault = "none"
    /\ subnets = <<>> /\ log = <<>>
    /\ IpIdle /\ QmIdle /\ GenIdle /\ NetuidIdle /\ ScoreIdle

ScoreMiner(module_info) ==
    /\ Len(score_calls) < MaxCalls
    /\ score_input' = module_info
    /\ LET r == score_miner(module_info, chain_weights, modules_info)
       IN  /\ score_status' = r.status
           /\ modules_info' = r.value
           /\ score_calls' = Append(score_calls, <<module_info, r.status>>)
    /\ UNCHANGED <<chainVars, ipVars, qmVars, log, genVars, netuidVars>>

NextScore ==
    \E n \in ScoreNetuids, k \in ScoreKeys :
        ScoreMiner(("netuid" :> n) @@ ("ss58_address" :> k))

SpecScore == InitScore /\ [][NextScore]_vars

====
